---- MODULE Spec2Model ----
(***************************************************************************)
(* Model of postgres-mcp: the lexical query validator and identifier       *)
(* sanitizer (validators.py), the bounded query history (history.py), the  *)
(* connection pool with its read-only execution paths (database.py) and    *)
(* the tool handlers that compose them (tools.py).                         *)
(*                                                                         *)
(* Text is modelled as a sequence of one-character strings, so that the    *)
(* regular expressions of validators.py are computed character by          *)
(* character as Python's re module computes them.                          *)
(***************************************************************************)
EXTENDS Integers, Sequences, FiniteSets, TLC

(***************************************************************************)
(* Bounds of the model.                                                    *)
(***************************************************************************)
\* longest query / identifier, counted in pieces, drawn by SpecValidators
MaxPieces == 4

\* longest query of the comment-splicing family drawn by SpecValidators
MaxSplicePieces == 6

\* QUERY_HISTORY_SIZE, the capacity of the history
HistoryCapacity == 2

\* number of add_query calls SpecHistory makes at most
MaxAdds == 4

\* number of tool calls made
NumCalls == 2

\* pool_max_size, the number of connections of the pool
PoolMaxSize == 1

\* most rows the database returns for one statement
MaxRows == 1

(***************************************************************************)
(* Characters.                                                             *)
(***************************************************************************)
NL == "\n"

LowerLetters == <<"a","b","c","d","e","f","g","h","i","j","k","l","m",
                  "n","o","p","q","r","s","t","u","v","w","x","y","z">>

UpperLetters == <<"A","B","C","D","E","F","G","H","I","J","K","L","M",
                  "N","O","P","Q","R","S","T","U","V","W","X","Y","Z">>

Digits == {"0","1","2","3","4","5","6","7","8","9"}

Range(s) == {s[i] : i \in DOMAIN s}

\* the characters matched by \w in an ASCII text: [A-Za-z0-9_]
WordChars == Range(LowerLetters) \cup Range(UpperLetters) \cup Digits \cup {"_"}

\* the characters removed by str.strip()
Whitespace == {" ", NL, "\t", "\r"}

\* re.IGNORECASE on ASCII text: compare letters by their upper-case form
Upper(c) ==
    IF c \in Range(LowerLetters)
    THEN UpperLetters[CHOOSE i \in DOMAIN LowerLetters : LowerLetters[i] = c]
    ELSE c

StartsWith(q, a, b) == Len(q) >= 2 /\ q[1] = a /\ q[2] = b

Drop(q, n) == SubSeq(q, n + 1, Len(q))

(***************************************************************************)
(* validators.py                                                           *)
(***************************************************************************)
FORBIDDEN_KEYWORDS ==
    << <<"I","N","S","E","R","T">>,
       <<"U","P","D","A","T","E">>,
       <<"D","E","L","E","T","E">>,
       <<"D","R","O","P">>,
       <<"C","R","E","A","T","E">>,
       <<"A","L","T","E","R">>,
       <<"T","R","U","N","C","A","T","E">>,
       <<"G","R","A","N","T">>,
       <<"R","E","V","O","K","E">>,
       <<"E","X","E","C","U","T","E">>,
       <<"C","A","L","L">>,
       <<"C","O","P","Y">> >>

\* re.sub(r"--.*$", "", query, flags=re.MULTILINE): every "--" and what
\* follows it up to (not including) the next newline is deleted
RECURSIVE StripLineComments(_, _)
StripLineComments(q, inComment) ==
    IF q = <<>> THEN <<>>
    ELSE IF inComment
         THEN IF Head(q) = NL
              THEN <<NL>> \o StripLineComments(Tail(q), FALSE)
              ELSE StripLineComments(Tail(q), TRUE)
         ELSE IF StartsWith(q, "-", "-")
              THEN StripLineComments(Drop(q, 2), TRUE)
              ELSE <<Head(q)>> \o StripLineComments(Tail(q), FALSE)

\* positions j of q, after an opening "/*" at 1..2, where a "*/" starts
ClosersAfterOpen(q) == {j \in 3..(Len(q) - 1) : q[j] = "*" /\ q[j + 1] = "/"}

Min(S) == CHOOSE x \in S : \A y \in S : x <= y

\* re.sub(r"/\*.*?\*/", "", query, flags=re.DOTALL): leftmost "/*" that has
\* a later "*/" is deleted together with the shortest text up to that "*/"
RECURSIVE StripBlockComments(_)
StripBlockComments(q) ==
    IF q = <<>> THEN <<>>
    ELSE IF StartsWith(q, "/", "*") /\ ClosersAfterOpen(q) # {}
         THEN StripBlockComments(Drop(q, Min(ClosersAfterOpen(q)) + 1))
         ELSE <<Head(q)>> \o StripBlockComments(Tail(q))

remove_sql_comments(query) ==
    StripBlockComments(StripLineComments(query, FALSE))

\* re.search(rf"\b{keyword}\b", s, re.IGNORECASE) matching at position i
MatchesAt(s, kw, i) ==
    /\ i + Len(kw) - 1 <= Len(s)
    /\ \A k \in 1..Len(kw) : Upper(s[i + k - 1]) = kw[k]
    /\ (i = 1 \/ s[i - 1] \notin WordChars)
    /\ (i + Len(kw) > Len(s) \/ s[i + Len(kw)] \notin WordChars)

SearchKeyword(s, kw) == \E i \in 1..Len(s) : MatchesAt(s, kw, i)

\* "not query or not query.strip()"
IsBlank(query) == \A i \in DOMAIN query : query[i] \in Whitespace

\* the keywords of the denylist found in the cleaned query, by index
FoundKeywords(query) ==
    {k \in DOMAIN FORBIDDEN_KEYWORDS :
        SearchKeyword(remove_sql_comments(query), FORBIDDEN_KEYWORDS[k])}

\* validate_query: ok, or the ValueError it raises.  The loop is over the
\* denylist in order, so the first keyword of the list that is found is
\* the one named in the message.
validate_query(query) ==
    IF IsBlank(query)
    THEN [ok |-> FALSE, error |-> "Query cannot be empty", keyword |-> <<>>]
    ELSE IF FoundKeywords(query) # {}
         THEN [ok |-> FALSE, error |-> "Query contains forbidden keyword",
               keyword |-> FORBIDDEN_KEYWORDS[Min(FoundKeywords(query))]]
         ELSE [ok |-> TRUE, error |-> "", keyword |-> <<>>]

\* [a-zA-Z0-9_\.]
IdentChars == WordChars \cup {"."}

\* re.match(r"^[a-zA-Z0-9_\.]+$", identifier): "$" without re.MULTILINE
\* matches at the end of the text and also just before a newline that is
\* the last character of the text
MatchesIdentPattern(identifier) ==
    \/ /\ Len(identifier) >= 1
       /\ \A i \in DOMAIN identifier : identifier[i] \in IdentChars
    \/ /\ Len(identifier) >= 2
       /\ identifier[Len(identifier)] = NL
       /\ \A i \in 1..(Len(identifier) - 1) : identifier[i] \in IdentChars

\* sanitize_identifier: the identifier unchanged, or the ValueError raised
sanitize_identifier(identifier) ==
    IF identifier = <<>>
    THEN [ok |-> FALSE, error |-> "Identifier cannot be empty", value |-> <<>>]
    ELSE IF ~MatchesIdentPattern(identifier)
         THEN [ok |-> FALSE, error |-> "Invalid identifier", value |-> <<>>]
         ELSE [ok |-> TRUE, error |-> "", value |-> identifier]

(***************************************************************************)
(* history.py                                                              *)
(***************************************************************************)
\* deque(maxlen=max_size).append(entry) left without its eviction
add_query_keeps_all(h, entry) == Append(h, entry)

\* deque(maxlen=max_size).append(entry): an append to a full deque first
\* discards the entry at the left end
add_query(h, entry) ==
    IF Len(h) + 1 > HistoryCapacity THEN Tail(Append(h, entry)) ELSE Append(h, entry)

Reverse(s) == [i \in 1..Len(s) |-> s[Len(s) + 1 - i]]

\* Python's s[:n]
SliceTo(s, n) ==
    IF n >= 0
    THEN SubSeq(s, 1, IF n < Len(s) THEN n ELSE Len(s))
    ELSE SubSeq(s, 1, IF Len(s) + n > 0 THEN Len(s) + n ELSE 0)

\* get_recent without its reverse(): the oldest entries, oldest first
get_recent_oldest_first(h, limit) == SliceTo(h, limit)

\* list(self._history); reverse(); [:limit]
get_recent(h, limit) == SliceTo(Reverse(h), limit)

clear(h) == <<>>

get_count(h) == Len(h)

(***************************************************************************)
(* types.py: the typed requests of the tools.  A request is a record of    *)
(* the arguments given.  A text is a sequence of characters; Missing marks  *)
(* a text argument that was not given and NoName one given as None.  A     *)
(* timeout is <<t>>, t counted in microseconds, or NoTimeout for None.     *)
(***************************************************************************)
Missing == <<"MISSING">>

NoName == <<"None">>

None == "None"

NoTimeout == <<>>

Micros == 1000 * 1000

OutputFormats == {"json", "csv", "markdown"}

\* QueryDatabaseInput(**args): the pydantic model's required field, its
\* enumeration and its timeout validator
QueryDatabaseInput(args) ==
    /\ args.query # Missing
    /\ args.format \in OutputFormats
    /\ args.timeout # NoTimeout
          => (args.timeout[1] > 0 /\ args.timeout[1] <= 300 * Micros)

\* ListTablesInput(**args): schema is optional
ListTablesInput(args) == TRUE

\* DescribeTableInput(**args) and GetTableIndexesInput(**args): table_name
\* is required, schema defaults to "public"
DescribeTableInput(args) == args.table_name # Missing

\* limit: int = Field(20, ...): the limit of a call that gives none
DefaultLimit == 20

\* the request model without validate_limit
GetQueryHistoryInput_unchecked(args) == TRUE

\* GetQueryHistoryInput(**args): validate_limit
GetQueryHistoryInput(args) == args.limit >= 1 /\ args.limit <= 100

\* DatabaseConfig(**values): four required texts and the field validators
\* validate_port, validate_pool_size and validate_timeout
DatabaseConfig(cfg) ==
    /\ cfg.host # Missing
    /\ cfg.database # Missing
    /\ cfg.user # Missing
    /\ cfg.password # Missing
    /\ 1 <= cfg.port /\ cfg.port <= 65535
    /\ ~(cfg.pool_min_size < 1)
    /\ ~(cfg.pool_max_size < 1)
    /\ ~(cfg.command_timeout <= 0)
    /\ ~(cfg.connection_timeout <= 0)

\* "not host" of a value of the environment: absent or empty
NotSet(value) == value = Missing \/ value = <<>>

\* get_config: host, database and user must be set, then DatabaseConfig
get_config(env) ==
    IF NotSet(env.host) \/ NotSet(env.database) \/ NotSet(env.user)
    THEN [ok |-> FALSE, error |-> "Missing required environment variables"]
    ELSE IF ~DatabaseConfig(env)
    THEN [ok |-> FALSE, error |-> "ValidationError"]
    ELSE [ok |-> TRUE, error |-> ""]

PublicSchema == <<"p","u","b","l","i","c">>

\* f"{value}" of a name that may be None
Interpolated(name) == IF name = NoName THEN <<"N","o","n","e">> ELSE name

\* "if input_data.schema_name:"
Truthy(name) == name # NoName /\ name # <<>>

(***************************************************************************)
(* database.py: the errors of the driver and how execute_readonly_query    *)
(* maps them.  The driver's classes UndefinedTableError,                   *)
(* UndefinedColumnError, PostgresSyntaxError and InsufficientPrivilegeError *)
(* are subclasses of SyntaxOrAccessError.                                  *)
(***************************************************************************)
SyntaxOrAccessErrors ==
    {"UndefinedTableError", "UndefinedColumnError", "PostgresSyntaxError",
     "InsufficientPrivilegeError"}

DriverErrors ==
    {"QueryCanceledError", "ReadOnlySQLTransactionError",
     "ConnectionDoesNotExistError"} \cup SyntaxOrAccessErrors

\* the except clauses with SyntaxOrAccessError tried before its subclass
MapDriverError_class_first(kind) ==
    IF kind = "QueryCanceledError" THEN "Query execution timeout"
    ELSE IF kind = "ReadOnlySQLTransactionError" THEN "Write operations are not allowed"
    ELSE IF kind \in SyntaxOrAccessErrors THEN "SQL error"
    ELSE kind

\* the except clauses of execute_readonly_query, first match first
MapDriverError(kind) ==
    IF kind = "QueryCanceledError" THEN "Query execution timeout"
    ELSE IF kind = "ReadOnlySQLTransactionError" THEN "Write operations are not allowed"
    ELSE IF kind = "UndefinedTableError" THEN "Table does not exist"
    ELSE IF kind \in SyntaxOrAccessErrors THEN "SQL error"
    ELSE kind

\* what a pool method raises for a driver error: execute_fetchval and
\* execute_fetchrow log and re-raise it unchanged
RaisedFor(method, kind) ==
    IF method = "execute_readonly_query" THEN MapDriverError(kind) ELSE kind

PoolNotInitialized == "Database pool not initialized"

PoolNotInitializedGlobal == "Database pool not initialized. Call initialize_pool() first."

\* int(timeout * 1000), the milliseconds handed to SET LOCAL
TimeoutMillis(timeout) == timeout[1] \div 1000

\* "if timeout:"
TimeoutGiven(timeout) == timeout # NoTimeout /\ timeout[1] # 0

(***************************************************************************)
(* formatters.py: format_rows fails only where json.dumps meets a value    *)
(* that serialize_value passes through and JSON cannot encode (a UUID, a   *)
(* time, an interval): an "opaque" row.  A "converted" row holds a value   *)
(* that serialize_value rewrites (a datetime, a date, a Decimal, bytes),   *)
(* a "plain" row only values that JSON encodes as they are.                *)
(***************************************************************************)
format_rows_raises(rows, format) ==
    format = "json" /\ \E i \in DOMAIN rows : rows[i] = "opaque"

(***************************************************************************)
(* tools.py: the handlers.  A handler runs from one await to the next as   *)
(* one step of the event loop.  handler(cs, r) is the handler of call cs   *)
(* resumed at stage cs.stage with the result r of the pool method it       *)
(* awaited (stage 0: the call begins).  It yields what the handler does up *)
(* to its next await: the pool method it calls next (next = "exec") or its *)
(* return or raise (next = "done"), with the entries it adds to history.   *)
(***************************************************************************)
Ok(cs, rows) ==
    [status |-> "ok", error |-> "", keyword |-> <<>>, row_count |-> rows, value |-> <<>>]

Err(cs, error) ==
    [status |-> "error", error |-> error, keyword |-> <<>>, row_count |-> 0, value |-> <<>>]

NoResponse ==
    [status |-> "none", error |-> "", keyword |-> <<>>, row_count |-> 0, value |-> <<>>]

NoOp == [method |-> "none", stmt |-> "none", timeout |-> NoTimeout, interp |-> {}]

Return(cs, response, log) ==
    [next |-> "done", stage |-> cs.stage, op |-> NoOp, pending |-> cs.pending,
     accepted |-> cs.accepted, response |-> response, log |-> log, read |-> <<>>]

Await(cs, stage, op, pending, accepted) ==
    [next |-> "exec", stage |-> stage, op |-> op, pending |-> pending,
     accepted |-> accepted, response |-> NoResponse, log |-> <<>>, read |-> <<>>]

Entry(cs, success, row_count, error) ==
    [id |-> cs.id, success |-> success, row_count |-> row_count, error |-> error]

\* query_database_tool up to "rows = await db.execute_readonly_query(...)":
\* QueryDatabaseInput(**args); validate_query; get_database_pool
query_database_begin(cs, dbPoolSet) ==
    IF ~QueryDatabaseInput(cs.args)
    THEN Return(cs, Err(cs, "ValidationError"), <<>>)
    ELSE IF ~validate_query(cs.args.query).ok
    THEN Return(cs, [Err(cs, validate_query(cs.args.query).error)
                        EXCEPT !.keyword = validate_query(cs.args.query).keyword],
                <<>>)
    ELSE IF ~dbPoolSet
    THEN Return(cs, Err(cs, PoolNotInitializedGlobal), <<>>)
    ELSE Await(cs, 1, [method |-> "execute_readonly_query", stmt |-> "user query",
                       timeout |-> cs.args.timeout, interp |-> {}],
               <<>>, {})

\* query_database_tool with validation failures tracked in history too
query_database_tool_records_rejections(cs, r, dbPoolSet) ==
    IF cs.stage = 0
    THEN IF ~QueryDatabaseInput(cs.args)
         THEN Return(cs, Err(cs, "ValidationError"), <<>>)
         ELSE IF ~validate_query(cs.args.query).ok
         THEN Return(cs, [Err(cs, validate_query(cs.args.query).error)
                             EXCEPT !.keyword = validate_query(cs.args.query).keyword],
                     <<Entry(cs, FALSE, 0, validate_query(cs.args.query).error)>>)
         ELSE IF ~dbPoolSet
         THEN Return(cs, Err(cs, PoolNotInitializedGlobal), <<>>)
         ELSE Await(cs, 1, [method |-> "execute_readonly_query", stmt |-> "user query",
                            timeout |-> cs.args.timeout, interp |-> {}],
                    <<>>, {})
    ELSE IF ~r.ok
         THEN Return(cs, Err(cs, r.error), <<Entry(cs, FALSE, 0, r.error)>>)
         ELSE IF format_rows_raises(r.rows, cs.args.format)
         THEN Return(cs, Err(cs, "TypeError"), <<Entry(cs, FALSE, 0, "TypeError")>>)
         ELSE Return(cs, Ok(cs, Len(r.rows)), <<Entry(cs, TRUE, Len(r.rows), None)>>)

\* query_database_tool with the history entry written before format_rows
query_database_tool_tracks_before_format(cs, r, dbPoolSet) ==
    IF cs.stage = 0
    THEN query_database_begin(cs, dbPoolSet)
    ELSE IF ~r.ok
         THEN Return(cs, Err(cs, r.error), <<Entry(cs, FALSE, 0, r.error)>>)
         ELSE IF format_rows_raises(r.rows, cs.args.format)
         THEN Return(cs, Err(cs, "TypeError"),
                     <<Entry(cs, TRUE, Len(r.rows), None), Entry(cs, FALSE, 0, "TypeError")>>)
         ELSE Return(cs, Ok(cs, Len(r.rows)), <<Entry(cs, TRUE, Len(r.rows), None)>>)

\* query_database_tool with the history entry written when the call arrives
query_database_tool_tracks_on_arrival(cs, r, dbPoolSet) ==
    IF cs.stage = 0
    THEN IF query_database_begin(cs, dbPoolSet).next = "exec"
         THEN [query_database_begin(cs, dbPoolSet) EXCEPT !.log = <<Entry(cs, TRUE, 0, None)>>]
         ELSE query_database_begin(cs, dbPoolSet)
    ELSE IF ~r.ok
         THEN Return(cs, Err(cs, r.error), <<>>)
         ELSE IF format_rows_raises(r.rows, cs.args.format)
         THEN Return(cs, Err(cs, "TypeError"), <<>>)
         ELSE Return(cs, Ok(cs, Len(r.rows)), <<>>)

query_database_tool(cs, r, dbPoolSet) ==
    IF cs.stage = 0
    THEN query_database_begin(cs, dbPoolSet)
    ELSE \* after execute_readonly_query, inside the try
         IF ~r.ok
         THEN Return(cs, Err(cs, r.error), <<Entry(cs, FALSE, 0, r.error)>>)
         ELSE IF format_rows_raises(r.rows, cs.args.format)
         THEN Return(cs, Err(cs, "TypeError"), <<Entry(cs, FALSE, 0, "TypeError")>>)
         ELSE Return(cs, Ok(cs, Len(r.rows)), <<Entry(cs, TRUE, Len(r.rows), None)>>)

\* the count query of list_tables for the next row, or the return
ListTablesLoop(cs, rows) ==
    IF rows = <<>>
    THEN Return(cs, Ok(cs, 0), <<>>)
    ELSE Await(cs, 2, [method |-> "execute_fetchval", stmt |-> "row count",
                       timeout |-> NoTimeout,
                       interp |-> {rows[1].schema, rows[1].name}],
               rows, cs.accepted)

list_tables_tool(cs, r, dbPoolSet) ==
    IF cs.stage = 0
    THEN IF ~ListTablesInput(cs.args)
         THEN Return(cs, Err(cs, "ValidationError"), <<>>)
         ELSE IF ~dbPoolSet
         THEN Return(cs, Err(cs, PoolNotInitializedGlobal), <<>>)
         ELSE IF Truthy(cs.args.schema)
         THEN IF ~sanitize_identifier(cs.args.schema).ok
              THEN Return(cs, Err(cs, sanitize_identifier(cs.args.schema).error), <<>>)
              ELSE Await(cs, 1, [method |-> "execute_readonly_query",
                                 stmt |-> "list tables", timeout |-> NoTimeout,
                                 interp |-> {cs.args.schema}],
                         <<>>, {cs.args.schema})
         ELSE Await(cs, 1, [method |-> "execute_readonly_query",
                            stmt |-> "list tables", timeout |-> NoTimeout, interp |-> {}],
                    <<>>, {})
    ELSE IF ~r.ok
         THEN Return(cs, Err(cs, r.error), <<>>)
         ELSE IF cs.stage = 1
         THEN ListTablesLoop(cs, r.rows)
         ELSE ListTablesLoop(cs, Tail(cs.pending))

\* the names describe_table and get_table_indexes accept before they query
SanitizedArgs(args) ==
    {args.table_name} \cup (IF Truthy(args.schema) THEN {args.schema} ELSE {})

TableQuery(cs, stage, stmt) ==
    Await(cs, stage, [method |-> "execute_readonly_query", stmt |-> stmt,
                      timeout |-> NoTimeout,
                      interp |-> {cs.args.table_name, Interpolated(cs.args.schema)}],
          <<>>, SanitizedArgs(cs.args))

\* describe_table_tool with the sanitizer called after the first query
describe_table_tool_sanitizes_late(cs, r, dbPoolSet) ==
    IF cs.stage = 0
    THEN IF ~DescribeTableInput(cs.args)
         THEN Return(cs, Err(cs, "ValidationError"), <<>>)
         ELSE IF ~dbPoolSet
         THEN Return(cs, Err(cs, PoolNotInitializedGlobal), <<>>)
         ELSE TableQuery(cs, 1, "columns")
    ELSE IF ~r.ok
         THEN Return(cs, Err(cs, r.error), <<>>)
         ELSE IF ~sanitize_identifier(cs.args.table_name).ok
         THEN Return(cs, Err(cs, sanitize_identifier(cs.args.table_name).error), <<>>)
         ELSE IF Truthy(cs.args.schema) /\ ~sanitize_identifier(cs.args.schema).ok
         THEN Return(cs, Err(cs, sanitize_identifier(cs.args.schema).error), <<>>)
         ELSE IF cs.stage = 1 THEN TableQuery(cs, 2, "indexes")
         ELSE IF cs.stage = 2 THEN TableQuery(cs, 3, "foreign keys")
         ELSE IF cs.args.schema = NoName
         THEN Return(cs, Err(cs, "ValidationError of TableDescription"), <<>>)
         ELSE Return(cs, Ok(cs, 0), <<>>)

describe_table_tool(cs, r, dbPoolSet) ==
    IF cs.stage = 0
    THEN \* DescribeTableInput(**args); sanitize_identifier; get_database_pool
         IF ~DescribeTableInput(cs.args)
         THEN Return(cs, Err(cs, "ValidationError"), <<>>)
         ELSE IF ~sanitize_identifier(cs.args.table_name).ok
         THEN Return(cs, Err(cs, sanitize_identifier(cs.args.table_name).error), <<>>)
         ELSE IF Truthy(cs.args.schema) /\ ~sanitize_identifier(cs.args.schema).ok
         THEN Return(cs, Err(cs, sanitize_identifier(cs.args.schema).error), <<>>)
         ELSE IF ~dbPoolSet
         THEN Return(cs, Err(cs, PoolNotInitializedGlobal), <<>>)
         ELSE TableQuery(cs, 1, "columns")
    ELSE IF ~r.ok
         THEN Return(cs, Err(cs, r.error), <<>>)
         ELSE IF cs.stage = 1 THEN TableQuery(cs, 2, "indexes")
         ELSE IF cs.stage = 2 THEN TableQuery(cs, 3, "foreign keys")
         ELSE \* TableDescription(schema_name=...): schema is a required str
              IF cs.args.schema = NoName
              THEN Return(cs, Err(cs, "ValidationError of TableDescription"), <<>>)
              ELSE Return(cs, Ok(cs, 0), <<>>)

get_table_indexes_tool(cs, r, dbPoolSet) ==
    IF cs.stage = 0
    THEN IF ~DescribeTableInput(cs.args)
         THEN Return(cs, Err(cs, "ValidationError"), <<>>)
         ELSE IF ~sanitize_identifier(cs.args.table_name).ok
         THEN Return(cs, Err(cs, sanitize_identifier(cs.args.table_name).error), <<>>)
         ELSE IF Truthy(cs.args.schema) /\ ~sanitize_identifier(cs.args.schema).ok
         THEN Return(cs, Err(cs, sanitize_identifier(cs.args.schema).error), <<>>)
         ELSE IF ~dbPoolSet
         THEN Return(cs, Err(cs, PoolNotInitializedGlobal), <<>>)
         ELSE TableQuery(cs, 1, "indexes")
    ELSE IF ~r.ok
         THEN Return(cs, Err(cs, r.error), <<>>)
         ELSE Return(cs, Ok(cs, Len(r.rows)), <<>>)

\* list_schemas_tool with its failures tracked in the history
list_schemas_tool_tracks_failures(cs, r, dbPoolSet) ==
    IF cs.stage = 0
    THEN IF ~dbPoolSet
         THEN Return(cs, Err(cs, PoolNotInitializedGlobal), <<>>)
         ELSE Await(cs, 1, [method |-> "execute_readonly_query", stmt |-> "list schemas",
                            timeout |-> NoTimeout, interp |-> {}], <<>>, {})
    ELSE IF ~r.ok
         THEN Return(cs, Err(cs, r.error), <<Entry(cs, FALSE, 0, r.error)>>)
         ELSE Return(cs, Ok(cs, Len(r.rows)), <<>>)

list_schemas_tool(cs, r, dbPoolSet) ==
    IF cs.stage = 0
    THEN IF ~dbPoolSet
         THEN Return(cs, Err(cs, PoolNotInitializedGlobal), <<>>)
         ELSE Await(cs, 1, [method |-> "execute_readonly_query", stmt |-> "list schemas",
                            timeout |-> NoTimeout, interp |-> {}], <<>>, {})
    ELSE IF ~r.ok
         THEN Return(cs, Err(cs, r.error), <<>>)
         ELSE Return(cs, Ok(cs, Len(r.rows)), <<>>)

get_query_history_tool(cs, r, h) ==
    IF ~GetQueryHistoryInput(cs.args)
    THEN Return(cs, Err(cs, "ValidationError"), <<>>)
    ELSE \* history.get_recent(limit=input_data.limit)
         [Return(cs, [Ok(cs, Len(get_recent(h, cs.args.limit)))
                         EXCEPT !.value = get_recent(h, cs.args.limit)], <<>>)
             EXCEPT !.read = <<cs.args.limit>>]

get_database_stats_tool(cs, r, dbPoolSet) ==
    IF cs.stage = 0
    THEN IF ~dbPoolSet
         THEN Return(cs, Err(cs, PoolNotInitializedGlobal), <<>>)
         ELSE Await(cs, 1, [method |-> "execute_fetchrow", stmt |-> "database stats",
                            timeout |-> NoTimeout, interp |-> {}], <<>>, {})
    ELSE IF ~r.ok
         THEN Return(cs, Err(cs, r.error), <<>>)
         ELSE IF cs.stage = 1
         THEN Await(cs, 2, [method |-> "execute_fetchval", stmt |-> "table count",
                            timeout |-> NoTimeout, interp |-> {}], <<>>, {})
         ELSE Return(cs, Ok(cs, 1), <<>>)

\* DatabasePool.health_check, called on the pool object: it acquires a
\* connection and probes it, and turns every failure into False
health_check(cs, r, dbPoolSet) ==
    IF cs.stage = 0
    THEN Await(cs, 1, [method |-> "health_check", stmt |-> "SELECT 1",
                       timeout |-> NoTimeout, interp |-> {}], <<>>, {})
    ELSE Return(cs, [Ok(cs, 0) EXCEPT !.value = <<r.ok>>], <<>>)

(***************************************************************************)
(* State.                                                                  *)
(***************************************************************************)
VARIABLES
    vin,      \* the text handed to a validator: [kind, text]
    vout,     \* what the validator returned or raised; NoResult before it ran
    history,  \* QueryHistory._history, oldest entry first
    inserted, \* every entry handed to add_query since the last clear()
    recent,   \* what the last get_recent() / get_count() returned
    asked,    \* the last operation on the history: its name, its limit and
              \* the history it found
    dbPool,   \* the global _db_pool: None or "set"
    pool,     \* DatabasePool.pool: None, or the state of the asyncpg pool
    server,   \* where run_server stands
    conns,    \* the connections of the pool: holder, transaction, timeout
    calls,    \* the tool calls: where each handler stands
    sent,     \* the statements sent to the database so far
    leases,   \* how many connections each caller has leased so far
    menu      \* the calls each client may make

vars == <<vin, vout, history, inserted, recent, asked,
          dbPool, pool, server, conns, calls, sent, leases, menu>>

pipelineVars == <<dbPool, pool, server, conns, calls, sent, leases, menu>>

validatorVars == <<vin, vout>>

historyVars == <<history, inserted, recent, asked>>

NoResult == [ok |-> FALSE, error |-> "not run"]

NoAsk == [op |-> "none", limit |-> 0, before |-> <<>>]

(***************************************************************************)
(* The server: pool lifecycle, pool methods and tool calls.                *)
(***************************************************************************)
Calls == 1..NumCalls

\* the caller of the liveness probe of DatabasePool.initialize
ServerCaller == NumCalls + 1

ConnIds == 1..PoolMaxSize

FreeConn == [holder |-> {}, tx |-> "none", timeout |-> <<>>]

NoOpResult == [ok |-> FALSE, rows |-> <<>>, error |-> "none"]

NoReply == [kind |-> "none", error |-> "", tool |-> "none"]

\* no client calls anything
NoMenu == [c \in Calls |-> {}]

IdleCall(c) ==
    [id |-> c, pc |-> "idle", tool |-> "none", args |-> <<>>, stage |-> 0,
     op |-> NoOp, pending |-> <<>>, accepted |-> {}, conn |-> 0,
     result |-> NoOpResult, response |-> NoResponse, reply |-> NoReply]

\* the state before run_server: no pool object, nothing called yet
PipelineInit ==
    /\ dbPool = None
    /\ pool = None
    /\ server = "new"
    /\ conns = [k \in ConnIds |-> FreeConn]
    /\ calls = [c \in Calls |-> IdleCall(c)]
    /\ sent = {}
    /\ leases = [c \in Calls \cup {ServerCaller} |-> 0]


(***************************************************************************)
(* The validators applied to bounded texts.                                *)
(***************************************************************************)
RECURSIVE Concat(_)
Concat(ps) == IF ps = <<>> THEN <<>> ELSE Head(ps) \o Concat(Tail(ps))

PieceSeqs(P, max) == UNION {[1..n -> P] : n \in 0..max}

\* the pieces queries are assembled from: comment markers, separators,
\* identifier characters, keywords in several letter cases and two halves
\* of a keyword
QueryPieces ==
    { <<"-","-">>, <<"/","*">>, <<"*","/">>, <<"/">>, <<NL>>, <<" ">>,
      <<"x">>, <<"_">>, <<"C","A","L","L">>, <<"D","e","l","e","t","e">>,
      <<"c","a">>, <<"l","l">> }

\* the pieces identifiers are assembled from
IdentPieces ==
    { <<"a">>, <<"Z">>, <<"9">>, <<"_">>, <<".">>, <<NL>>, <<" ">>,
      <<"'">>, <<"\"">>, <<";">> }

\* the pieces of the comment-splicing family: longer queries over fewer
\* pieces, in which a comment stands in the middle of a word
SplicePieces ==
    { <<"/","*">>, <<"*","/">>, <<"_">>, <<"C","A","L","L">>,
      <<"c","a">>, <<"l","l">> }

\* the queries of up to max pieces and the spliced ones of up to maxSplice
Queries(max, maxSplice) ==
    {Concat(ps) : ps \in PieceSeqs(QueryPieces, max)}
    \cup {Concat(ps) : ps \in PieceSeqs(SplicePieces, maxSplice)}

Identifiers(max) == {Concat(ps) : ps \in PieceSeqs(IdentPieces, max)}

InitValidators ==
    /\ vin \in [kind : {"query"}, text : Queries(MaxPieces, MaxSplicePieces)]
               \cup [kind : {"identifier"}, text : Identifiers(MaxPieces)]
    /\ vout = NoResult
    /\ history = <<>>
    /\ inserted = <<>>
    /\ recent = <<>>
    /\ asked = NoAsk
    /\ PipelineInit
    /\ menu = NoMenu

ValidateQueryCall ==
    /\ vin.kind = "query"
    /\ vout = NoResult
    /\ vout' = validate_query(vin.text)
    /\ UNCHANGED <<vin, historyVars, pipelineVars>>

SanitizeIdentifierCall ==
    /\ vin.kind = "identifier"
    /\ vout = NoResult
    /\ vout' = sanitize_identifier(vin.text)
    /\ UNCHANGED <<vin, historyVars, pipelineVars>>

NextValidators == ValidateQueryCall \/ SanitizeIdentifierCall

SpecValidators == InitValidators /\ [][NextValidators]_vars

(***************************************************************************)
(* The configuration built from any values.                                *)
(***************************************************************************)
ConfigTexts == {Missing, <<"h">>}

Configs ==
    [kind : {"config"}, host : ConfigTexts, database : ConfigTexts, user : ConfigTexts,
     password : ConfigTexts, port : {0, 1, 5432, 65535, 65536},
     pool_min_size : 0..2, pool_max_size : 0..2,
     command_timeout : (-1)..1, connection_timeout : (-1)..1]

InitConfig ==
    /\ vin \in Configs
    /\ vout = NoResult
    /\ history = <<>>
    /\ inserted = <<>>
    /\ recent = <<>>
    /\ asked = NoAsk
    /\ PipelineInit
    /\ menu = NoMenu

\* DatabaseConfig(...) called directly
DatabaseConfigCall ==
    /\ vout = NoResult
    /\ vout' = [ok |-> DatabaseConfig(vin),
                error |-> IF DatabaseConfig(vin) THEN "" ELSE "ValidationError"]
    /\ UNCHANGED <<vin, historyVars, pipelineVars>>

\* get_config() with the values in the environment
GetConfigCall ==
    /\ vout = NoResult
    /\ vout' = get_config(vin)
    /\ UNCHANGED <<vin, historyVars, pipelineVars>>

NextConfig == DatabaseConfigCall \/ GetConfigCall

SpecConfig == InitConfig /\ [][NextConfig]_vars

(***************************************************************************)
(* The QueryHistory operations applied in any order.                       *)
(***************************************************************************)
InitHistory ==
    /\ vin = [kind |-> "none", text |-> <<>>]
    /\ vout = NoResult
    /\ history = <<>>
    /\ inserted = <<>>
    /\ recent = <<>>
    /\ asked = NoAsk
    /\ PipelineInit
    /\ menu = NoMenu

\* the entries add_query can be handed; id stands for query and timestamp
HistoryEntries(id) ==
    [id : {id}, success : {TRUE}, row_count : 0..1, error : {"None"}]
    \cup [id : {id}, success : {FALSE}, row_count : {0}, error : {"error"}]

AddQueryCall ==
    /\ Len(inserted) < MaxAdds
    /\ \E entry \in HistoryEntries(Len(inserted) + 1) :
          /\ history' = add_query(history, entry)
          /\ inserted' = Append(inserted, entry)
    /\ asked' = [op |-> "add_query", limit |-> 0, before |-> history]
    /\ UNCHANGED <<validatorVars, recent, pipelineVars>>

GetRecentCall ==
    /\ \E limit \in (-1)..(HistoryCapacity + 1) :
          /\ recent' = get_recent(history, limit)
          /\ asked' = [op |-> "get_recent", limit |-> limit, before |-> history]
    /\ UNCHANGED <<validatorVars, history, inserted, pipelineVars>>

ClearCall ==
    /\ history' = clear(history)
    /\ inserted' = <<>>
    /\ asked' = [op |-> "clear", limit |-> 0, before |-> history]
    /\ UNCHANGED <<validatorVars, recent, pipelineVars>>

GetCountCall ==
    /\ recent' = <<get_count(history)>>
    /\ asked' = [op |-> "get_count", limit |-> 0, before |-> history]
    /\ UNCHANGED <<validatorVars, history, inserted, pipelineVars>>

NextHistory == AddQueryCall \/ GetRecentCall \/ ClearCall \/ GetCountCall

SpecHistory == InitHistory /\ [][NextHistory]_vars

\* the last n elements of s
LastN(s, n) == SubSeq(s, Len(s) - n + 1, Len(s))

\* C10: the history never holds more than HistoryCapacity entries, and what
\* it holds is exactly the newest entries inserted since the last clear, in
\* insertion order: each insertion into a full history evicted the oldest
\* entry and nothing else.
C10_HistoryBoundedFifo ==
    /\ Len(history) <= HistoryCapacity
    /\ history = LastN(inserted,
                       IF Len(inserted) < HistoryCapacity
                       THEN Len(inserted) ELSE HistoryCapacity)

\* capacity+1 entries were inserted: the first is gone, the others are kept
C10_Witness ==
    /\ Len(inserted) = HistoryCapacity + 1
    /\ Len(history) = HistoryCapacity
    /\ \A i \in DOMAIN history : history[i] # inserted[1]
    /\ \A j \in 2..Len(inserted) : \E i \in DOMAIN history : history[i] = inserted[j]

(***************************************************************************)
(* The arguments tool calls are made with.                                 *)
(***************************************************************************)
QueryTexts ==
    { <<"x">>, <<" ">>, <<"C","A","L","L">>,
      <<"c","o","p","y"," ","D","e","l","e","t","e">> }

Names == { <<"t">>, <<"t","'">>, <<"t",NL>> }

QueryDatabaseCalls ==
    [tool : {"query_database"},
     args : [query : {<<"x">>}, format : {"json", "csv"}, timeout : {NoTimeout}]
            \cup [query : {<<"x">>}, format : {"json"}, timeout : {<<1 * Micros>>}]
            \cup [query : QueryTexts \cup {Missing}, format : {"json"},
                  timeout : {NoTimeout}]
            \cup [query : {<<"x">>}, format : {"xml"}, timeout : {NoTimeout}]
            \cup [query : {<<"x">>}, format : {"csv"},
                  timeout : {<<0>>, <<301 * Micros>>}]]

TableCalls ==
    [tool : {"describe_table", "get_table_indexes"},
     args : [table_name : Names \cup {Missing}, schema : {PublicSchema}]
            \cup [table_name : {<<"t">>}, schema : {<<"s","'">>, NoName, <<>>}]]

ToolCalls ==
    QueryDatabaseCalls
    \cup [tool : {"list_tables"}, args : [schema : Names \cup {NoName, <<>>}]]
    \cup TableCalls
    \cup [tool : {"list_schemas", "get_database_stats", "health_check", "no_such_tool"},
          args : {<<>>}]
    \cup [tool : {"get_query_history"}, args : [limit : {0, 1, DefaultLimit, 101}]]

\* the health probes made concurrently with call 1
HealthCalls == [tool : {"health_check"}, args : {<<>>}]

\* call 1 is the client under study; every further call is a health probe
\* competing for the pool
CallsOf(c) == IF c = 1 THEN ToolCalls ELSE HealthCalls

\* the tables the catalog may list
CatalogTables ==
    { [schema |-> <<"s">>, name |-> <<"t">>], [schema |-> <<"s">>, name |-> <<"t","'">>] }

SeqsUpTo(S, n) == UNION {[1..m -> S] : m \in 0..n}

\* what the database may answer to a statement
DbRows(stmt) ==
    IF stmt = "user query" THEN SeqsUpTo({"plain", "converted", "opaque"}, MaxRows)
    ELSE IF stmt = "list tables" THEN SeqsUpTo(CatalogTables, MaxRows)
    ELSE IF stmt \in {"columns", "indexes", "foreign keys", "list schemas"}
         THEN SeqsUpTo({"plain"}, MaxRows)
    ELSE {<<"plain">>}

DbErrors(stmt) ==
    IF stmt = "user query" THEN DriverErrors
    ELSE {"QueryCanceledError", "UndefinedTableError", "ConnectionDoesNotExistError"}

DbOutcomes(stmt) ==
    {[ok |-> TRUE, rows |-> rows, error |-> "none"] : rows \in DbRows(stmt)}
    \cup {[ok |-> FALSE, rows |-> <<>>, error |-> e] : e \in DbErrors(stmt)}

(***************************************************************************)
(* Resuming a handler.                                                     *)
(***************************************************************************)
Handler(cs, r) ==
    CASE cs.tool = "query_database" -> query_database_tool(cs, r, dbPool # None)
      [] cs.tool = "list_tables" -> list_tables_tool(cs, r, dbPool # None)
      [] cs.tool = "describe_table" -> describe_table_tool(cs, r, dbPool # None)
      [] cs.tool = "get_table_indexes" -> get_table_indexes_tool(cs, r, dbPool # None)
      [] cs.tool = "list_schemas" -> list_schemas_tool(cs, r, dbPool # None)
      [] cs.tool = "get_query_history" -> get_query_history_tool(cs, r, history)
      [] cs.tool = "get_database_stats" -> get_database_stats_tool(cs, r, dbPool # None)
      [] cs.tool = "health_check" -> health_check(cs, r, dbPool # None)
      [] OTHER -> \* "if name not in TOOLS: raise ValueError(...)"
                  Return(cs, [Err(cs, "Unknown tool") EXCEPT !.status = "raised"], <<>>)

Adopt(cs, out) ==
    [cs EXCEPT !.stage = out.stage, !.op = out.op, !.pending = out.pending,
               !.accepted = out.accepted]

\* "if not self.pool: raise ValueError(...)" (health_check: return False) at
\* the head of every pool method: the method fails before its first await
Resume(cs, r) ==
    IF Handler(cs, r).next = "exec" /\ pool = None
    THEN Handler(Adopt(cs, Handler(cs, r)),
                 [ok |-> FALSE, rows |-> <<>>, error |-> PoolNotInitialized])
    ELSE Handler(cs, r)

RECURSIVE AddAll(_, _)
AddAll(h, log) == IF log = <<>> THEN h ELSE AddAll(add_query(h, Head(log)), Tail(log))

\* the names call_tool dispatches
TOOLS ==
    {"query_database", "list_tables", "describe_table", "list_schemas",
     "get_table_indexes", "get_query_history", "get_database_stats"}

\* json.dumps(result) of call_tool: the result of query_database carries
\* the rows as the driver gave them, not as serialize_value rewrites them
JsonEncodable(cs) ==
    cs.tool = "query_database" => \A i \in DOMAIN cs.result.rows : cs.result.rows[i] = "plain"

\* call_tool with json.dumps(result) placed after its try block
call_tool_dumps_outside_try(cs) ==
    IF cs.response.status = "raised"
    THEN [kind |-> "raised", error |-> cs.response.error, tool |-> cs.tool]
    ELSE IF cs.response.status = "error"
    THEN [kind |-> "error object", error |-> cs.response.error, tool |-> cs.tool]
    ELSE IF ~JsonEncodable(cs)
    THEN [kind |-> "raised", error |-> "TypeError", tool |-> cs.tool]
    ELSE [kind |-> "payload", error |-> "", tool |-> cs.tool]

\* what call_tool gives the transport once the handler has returned or
\* raised: the exception of an unknown name, the error object built in its
\* except clause, or the JSON text of the result
call_tool(cs) ==
    IF cs.response.status = "raised"
    THEN [kind |-> "raised", error |-> cs.response.error, tool |-> cs.tool]
    ELSE IF cs.response.status = "error"
    THEN [kind |-> "error object", error |-> cs.response.error, tool |-> cs.tool]
    ELSE IF ~JsonEncodable(cs)
    THEN [kind |-> "error object", error |-> "TypeError", tool |-> cs.tool]
    ELSE [kind |-> "payload", error |-> "", tool |-> cs.tool]

\* the handler of call c runs on from state cs with result r to its next await
Continue(c, cs, r) ==
    /\ calls' = [calls EXCEPT ![c] =
                    [Adopt(cs, Resume(cs, r)) EXCEPT
                        !.pc = IF Resume(cs, r).next = "exec" THEN "acquire" ELSE "done",
                        !.response = Resume(cs, r).response,
                        !.reply = IF Resume(cs, r).next = "exec" \/ cs.tool = "health_check"
                                  THEN NoReply
                                  ELSE call_tool([cs EXCEPT !.response = Resume(cs, r).response])]]
    /\ history' = AddAll(history, Resume(cs, r).log)
    /\ inserted' = inserted \o Resume(cs, r).log
    /\ IF Resume(cs, r).read = <<>>
       THEN UNCHANGED <<recent, asked>>
       ELSE /\ recent' = get_recent(history, Resume(cs, r).read[1])
            /\ asked' = [op |-> "get_recent", limit |-> Resume(cs, r).read[1],
                         before |-> history]

\* a tool is called (call_tool dispatches to TOOLS[name]), or health_check
\* on the pool object, and runs to its first await
StartCall(c) ==
    /\ calls[c].pc = "idle"
    /\ c > 2 => calls[c - 1].pc # "idle"
    /\ \E tc \in menu[c] :
          /\ tc.tool = "health_check" => dbPool # None
          /\ Continue(c, [calls[c] EXCEPT !.tool = tc.tool, !.args = tc.args], NoOpResult)
    /\ UNCHANGED <<validatorVars, menu, dbPool, pool, server, conns, sent, leases>>

\* the method with its transaction block left out
UsesTransaction_only_query(method) == method = "execute_readonly_query"

\* "async with conn.transaction(readonly=True ...)": the three execute
\* methods open one, health_check and the probe of initialize do not
UsesTransaction(method) ==
    method \in {"execute_readonly_query", "execute_fetchval", "execute_fetchrow"}

FreeConns == {k \in ConnIds : conns[k].holder = {}}

\* Acquire on a pool that hands out a connection that is still leased
Acquire_leases_held(c) ==
    /\ calls[c].pc = "acquire"
    /\ pool = "open"
    /\ conns' = [conns EXCEPT ![Min(ConnIds)].holder = {c}]
    /\ calls' = [calls EXCEPT ![c].conn = Min(ConnIds),
                    ![c].pc = IF UsesTransaction(calls[c].op.method)
                              THEN "begin" ELSE "fetch"]
    /\ leases' = [leases EXCEPT ![c] = @ + 1]
    /\ UNCHANGED <<validatorVars, menu, historyVars, dbPool, pool, server, sent>>

\* Acquire on a pool that would lease after it was closed
Acquire_ignores_close(c) ==
    /\ calls[c].pc = "acquire"
    /\ pool \in {"open", "closed"}
    /\ FreeConns # {}
    /\ conns' = [conns EXCEPT ![Min(FreeConns)].holder = {c}]
    /\ calls' = [calls EXCEPT ![c].conn = Min(FreeConns),
                    ![c].pc = IF UsesTransaction(calls[c].op.method)
                              THEN "begin" ELSE "fetch"]
    /\ leases' = [leases EXCEPT ![c] = @ + 1]
    /\ UNCHANGED <<validatorVars, menu, historyVars, dbPool, pool, server, sent>>

\* "async with self.pool.acquire() as conn": a free connection is leased
\* (the connections are interchangeable: the first free one is taken)
Acquire(c) ==
    /\ calls[c].pc = "acquire"
    /\ pool = "open"
    /\ FreeConns # {}
    /\ conns' = [conns EXCEPT ![Min(FreeConns)].holder = {c}]
    /\ calls' = [calls EXCEPT ![c].conn = Min(FreeConns),
                    ![c].pc = IF UsesTransaction(calls[c].op.method)
                              THEN "begin" ELSE "fetch"]
    /\ leases' = [leases EXCEPT ![c] = @ + 1]
    /\ UNCHANGED <<validatorVars, menu, historyVars, dbPool, pool, server, sent>>

\* acquire() on a pool that is closing or closed raises InterfaceError
AcquireRefused(c) ==
    /\ calls[c].pc = "acquire"
    /\ pool \in {"closing", "closed"}
    /\ Continue(c, calls[c],
                [ok |-> FALSE, rows |-> <<>>,
                 error |-> RaisedFor(calls[c].op.method, "InterfaceError")])
    /\ UNCHANGED <<validatorVars, menu, dbPool, pool, server, conns, sent, leases>>

\* the transaction block is entered: BEGIN ... READ ONLY
Begin(c) ==
    /\ calls[c].pc = "begin"
    /\ conns' = [conns EXCEPT ![calls[c].conn].tx = "ro"]
    /\ calls' = [calls EXCEPT ![c].pc = IF TimeoutGiven(calls[c].op.timeout)
                                        THEN "settimeout" ELSE "fetch"]
    /\ UNCHANGED <<validatorVars, menu, historyVars, dbPool, pool, server, sent, leases>>

\* a statement as the database session receives it: "ro" and "deadline" are
\* the session's transaction mode and statement_timeout at that moment
Statement(caller, op, accepted, conn) ==
    [caller |-> caller, method |-> op.method, stmt |-> op.stmt,
     ro |-> conn.tx = "ro", interp |-> op.interp, accepted |-> accepted,
     timeout |-> op.timeout, deadline |-> conn.timeout]

\* conn.execute(f"SET LOCAL statement_timeout = {int(timeout * 1000)}")
SetTimeout(c) ==
    /\ calls[c].pc = "settimeout"
    /\ sent' = sent \cup
          {Statement(c, [calls[c].op EXCEPT !.stmt = "SET LOCAL statement_timeout"],
                     calls[c].accepted, conns[calls[c].conn])}
    /\ conns' = [conns EXCEPT ![calls[c].conn].timeout = <<TimeoutMillis(calls[c].op.timeout)>>]
    /\ calls' = [calls EXCEPT ![c].pc = "fetch"]
    /\ UNCHANGED <<validatorVars, menu, historyVars, dbPool, pool, server, leases>>

\* conn.fetch / fetchval / fetchrow: the statement is sent
Fetch(c) ==
    /\ calls[c].pc = "fetch"
    /\ sent' = sent \cup
          {Statement(c, calls[c].op, calls[c].accepted, conns[calls[c].conn])}
    /\ calls' = [calls EXCEPT ![c].pc = "release"]
    /\ UNCHANGED <<validatorVars, menu, historyVars, dbPool, pool, server, conns, leases>>

\* Release with the connection never given back to the pool
Release_keeps_connection(c) ==
    /\ calls[c].pc = "release"
    /\ \E outcome \in DbOutcomes(calls[c].op.stmt) :
          Continue(c, [calls[c] EXCEPT !.conn = 0, !.result = outcome],
                   IF outcome.ok
                   THEN outcome
                   ELSE [outcome EXCEPT
                            !.error = RaisedFor(calls[c].op.method, outcome.error)])
    /\ UNCHANGED <<validatorVars, menu, dbPool, pool, server, conns, sent, leases>>

\* Release with the session's statement_timeout left as the call set it
Release_keeps_timeout(c) ==
    /\ calls[c].pc = "release"
    /\ conns' = [conns EXCEPT ![calls[c].conn].holder = {}, ![calls[c].conn].tx = "none"]
    /\ \E outcome \in DbOutcomes(calls[c].op.stmt) :
          Continue(c, [calls[c] EXCEPT !.conn = 0, !.result = outcome],
                   IF outcome.ok
                   THEN outcome
                   ELSE [outcome EXCEPT
                            !.error = RaisedFor(calls[c].op.method, outcome.error)])
    /\ UNCHANGED <<validatorVars, menu, dbPool, pool, server, sent, leases>>

\* the database answers; the transaction block and the acquire block are
\* left (commit or rollback, then release); the method returns the rows or
\* raises to the handler, which runs on
Release(c) ==
    /\ calls[c].pc = "release"
    /\ conns' = [conns EXCEPT ![calls[c].conn] = FreeConn]
    /\ \E outcome \in DbOutcomes(calls[c].op.stmt) :
          Continue(c, [calls[c] EXCEPT !.conn = 0, !.result = outcome],
                   IF outcome.ok
                   THEN outcome
                   ELSE [outcome EXCEPT
                            !.error = RaisedFor(calls[c].op.method, outcome.error)])
    /\ UNCHANGED <<validatorVars, menu, dbPool, pool, server, sent, leases>>

(***************************************************************************)
(* run_server: initialize_pool, serve, close_pool.                         *)
(***************************************************************************)
\* initialize_pool: _db_pool = DatabasePool(config), then create_pool starts
InitializePool ==
    /\ server = "new"
    /\ dbPool' = "set"
    /\ server' = "creating"
    /\ UNCHANGED <<validatorVars, menu, historyVars, pool, conns, calls, sent, leases>>

\* asyncpg.create_pool returns the pool, or raises: the exception leaves
\* run_server through its finally, where close_pool drops the pool object
CreatePool ==
    /\ server = "creating"
    /\ \/ pool' = "open" /\ server' = "probe acquire" /\ UNCHANGED dbPool
       \/ dbPool' = None /\ server' = "stopped" /\ UNCHANGED pool
    /\ UNCHANGED <<validatorVars, menu, historyVars, conns, calls, sent, leases>>

\* "async with self.pool.acquire() as conn" of initialize
ProbeAcquire ==
    /\ server = "probe acquire"
    /\ FreeConns # {}
    /\ conns' = [conns EXCEPT ![Min(FreeConns)].holder = {ServerCaller}]
    /\ leases' = [leases EXCEPT ![ServerCaller] = @ + 1]
    /\ server' = "probe fetch"
    /\ UNCHANGED <<validatorVars, menu, historyVars, dbPool, pool, calls, sent>>

ProbeConn == CHOOSE k \in ConnIds : conns[k].holder = {ServerCaller}

\* conn.fetchval("SELECT version()") of initialize, outside any transaction
ProbeFetch ==
    /\ server = "probe fetch"
    /\ sent' = sent \cup
          {Statement(ServerCaller,
                     [method |-> "initialize", stmt |-> "SELECT version()",
                      timeout |-> NoTimeout, interp |-> {}],
                     {}, conns[ProbeConn])}
    /\ server' \in {"probe done", "probe failed"}
    /\ UNCHANGED <<validatorVars, menu, historyVars, dbPool, pool, conns, calls, leases>>

\* the probe's connection is released; a failed probe leaves run_server
\* through its finally, where close_pool starts to close the pool
ProbeRelease ==
    /\ server \in {"probe done", "probe failed"}
    /\ conns' = [conns EXCEPT ![ProbeConn] = FreeConn]
    /\ IF server = "probe done"
       THEN server' = "serving" /\ UNCHANGED pool
       ELSE server' = "closing" /\ pool' = "closing"
    /\ UNCHANGED <<validatorVars, menu, historyVars, dbPool, calls, sent, leases>>

\* close_pool: DatabasePool.close awaits pool.close(), which refuses new
\* leases at once and returns when every connection has been released
ClosePoolBegin ==
    /\ server = "serving"
    /\ pool' = "closing"
    /\ server' = "closing"
    /\ UNCHANGED <<validatorVars, menu, historyVars, dbPool, conns, calls, sent, leases>>

\* pool.close() returns and close_pool sets _db_pool = None
ClosePoolEnd ==
    /\ server = "closing"
    /\ \A k \in ConnIds : conns[k].holder = {}
    /\ pool' = "closed"
    /\ dbPool' = None
    /\ server' = "stopped"
    /\ UNCHANGED <<validatorVars, menu, historyVars, conns, calls, sent, leases>>

Init ==
    /\ vin = [kind |-> "none", text |-> <<>>]
    /\ vout = NoResult
    /\ history = <<>>
    /\ inserted = <<>>
    /\ recent = <<>>
    /\ asked = NoAsk
    /\ PipelineInit
    /\ menu = [c \in Calls |-> CallsOf(c)]

Next ==
    \/ \E c \in Calls :
          \/ StartCall(c)
          \/ Acquire(c)
          \/ AcquireRefused(c)
          \/ Begin(c)
          \/ SetTimeout(c)
          \/ Fetch(c)
          \/ Release(c)
    \/ InitializePool
    \/ CreatePool
    \/ ProbeAcquire
    \/ ProbeFetch
    \/ ProbeRelease
    \/ ClosePoolBegin
    \/ ClosePoolEnd

Spec == Init /\ [][Next]_vars

(***************************************************************************)
(* The server with two clients that query and read the history; every     *)
(* further call is a health probe.                                         *)
(***************************************************************************)
ClientCalls ==
    [tool : {"query_database"},
     args : [query : {<<"x">>}, format : {"json"}, timeout : {NoTimeout, <<1 * Micros>>}]]
    \cup [tool : {"get_query_history"}, args : [limit : {0, 1, DefaultLimit, 100, 101}]]

InitClients ==
    /\ vin = [kind |-> "none", text |-> <<>>]
    /\ vout = NoResult
    /\ history = <<>>
    /\ inserted = <<>>
    /\ recent = <<>>
    /\ asked = NoAsk
    /\ PipelineInit
    /\ menu = [c \in Calls |-> IF c <= 2 THEN ClientCalls ELSE HealthCalls]

SpecClients == InitClients /\ [][Next]_vars

\* The event loop runs every task that can run, the driver answers every
\* statement within command_timeout, and the pool hands a released
\* connection to a waiter: a call that has begun, and run_server once it
\* has begun to start or to close the pool, take their next step.  Clients
\* need not call, and the server need not stop.
CallStep(c) ==
    Acquire(c) \/ AcquireRefused(c) \/ Begin(c) \/ SetTimeout(c) \/ Fetch(c) \/ Release(c)

ServerStep == CreatePool \/ ProbeAcquire \/ ProbeFetch \/ ProbeRelease \/ ClosePoolEnd

Fairness == WF_vars(ServerStep) /\ \A c \in Calls : WF_vars(CallStep(c))

\* the server with clients that compete for the pool: one query with a
\* timeout next to handlers of one statement
PoolCalls(c) ==
    IF c = 1
    THEN [tool : {"query_database"},
          args : [query : {<<"x">>}, format : {"json"}, timeout : {<<1 * Micros>>}]]
    ELSE [tool : {"list_schemas"}, args : {<<>>}]

InitPool ==
    /\ vin = [kind |-> "none", text |-> <<>>]
    /\ vout = NoResult
    /\ history = <<>>
    /\ inserted = <<>>
    /\ recent = <<>>
    /\ asked = NoAsk
    /\ PipelineInit
    /\ menu = [c \in Calls |-> PoolCalls(c)]

FairSpecPool == InitPool /\ [][Next]_vars /\ Fairness

(***************************************************************************)
(* The server with one client that queries next to a client that calls the *)
(* other tools, with arguments that succeed and arguments that fail, and   *)
(* health probes.                                                          *)
(***************************************************************************)
OtherToolCalls ==
    [tool : {"list_tables"}, args : [schema : {NoName, <<"t","'">>}]]
    \cup [tool : {"describe_table", "get_table_indexes"},
          args : [table_name : {<<"t">>, Missing}, schema : {PublicSchema}]]
    \cup [tool : {"list_schemas", "get_database_stats"}, args : {<<>>}]
    \cup [tool : {"get_query_history"}, args : [limit : {1, 101}]]

\* timeouts in microseconds, all accepted by validate_timeout: the two next
\* to one millisecond and the longest
MixedTimeouts == {<<999>>, <<1000>>, <<300 * Micros>>}

MixedCalls(c) ==
    IF c = 1
    THEN [tool : {"query_database"},
          args : [query : {<<"x">>}, format : {"json"}, timeout : MixedTimeouts]]
    ELSE IF c = 2 THEN OtherToolCalls ELSE HealthCalls

InitMixed ==
    /\ vin = [kind |-> "none", text |-> <<>>]
    /\ vout = NoResult
    /\ history = <<>>
    /\ inserted = <<>>
    /\ recent = <<>>
    /\ asked = NoAsk
    /\ PipelineInit
    /\ menu = [c \in Calls |-> MixedCalls(c)]

SpecMixed == InitMixed /\ [][Next]_vars

(***************************************************************************)
(* SQL's own lexical rules for comments, against which the validator is    *)
(* judged: "--" opens a comment that runs to the end of the line, "/*"     *)
(* opens one that runs to the next "*/"; a marker inside a comment opens   *)
(* nothing.  LexMask(q, "code")[i] is TRUE iff character i of q is part of *)
(* a comment.                                                              *)
(***************************************************************************)
HasCloser(q) == \E j \in 1..(Len(q) - 1) : q[j] = "*" /\ q[j + 1] = "/"

RECURSIVE LexMask(_, _)
LexMask(q, mode) ==
    IF q = <<>> THEN <<>>
    ELSE IF mode = "line"
         THEN IF Head(q) = NL
              THEN <<FALSE>> \o LexMask(Tail(q), "code")
              ELSE <<TRUE>> \o LexMask(Tail(q), "line")
    ELSE IF mode = "block"
         THEN IF StartsWith(q, "*", "/")
              THEN <<TRUE, TRUE>> \o LexMask(Drop(q, 2), "code")
              ELSE <<TRUE>> \o LexMask(Tail(q), "block")
    ELSE IF StartsWith(q, "-", "-")
         THEN <<TRUE, TRUE>> \o LexMask(Drop(q, 2), "line")
    ELSE IF StartsWith(q, "/", "*") /\ HasCloser(Drop(q, 2))
         THEN <<TRUE, TRUE>> \o LexMask(Drop(q, 2), "block")
    ELSE <<FALSE>> \o LexMask(Tail(q), "code")

\* the occurrences <<k, i>> of denylisted keyword k as a whole word at
\* position i of the query as written
WholeWordOccurrences(q) ==
    {o \in (DOMAIN FORBIDDEN_KEYWORDS) \X (1..Len(q)) :
        MatchesAt(q, FORBIDDEN_KEYWORDS[o[1]], o[2])}

OccurrenceSpan(o) == o[2]..(o[2] + Len(FORBIDDEN_KEYWORDS[o[1]]) - 1)

OutsideComments(q, o) == \A i \in OccurrenceSpan(o) : ~LexMask(q, "code")[i]

InsideComment(q, o) == \A i \in OccurrenceSpan(o) : LexMask(q, "code")[i]

\* keyword k written at position i of q in any letter case, boundaries aside
SubstringAt(q, k, i) ==
    /\ i + Len(FORBIDDEN_KEYWORDS[k]) - 1 <= Len(q)
    /\ \A n \in 1..Len(FORBIDDEN_KEYWORDS[k]) :
          Upper(q[i + n - 1]) = FORBIDDEN_KEYWORDS[k][n]

SubstringOccurrences(q) ==
    {o \in (DOMAIN FORBIDDEN_KEYWORDS) \X (1..Len(q)) : SubstringAt(q, o[1], o[2])}

ValidatedQuery == vin.kind = "query" /\ vout # NoResult

SanitizedIdentifier == vin.kind = "identifier" /\ vout # NoResult

\* C3: a query with a denylisted keyword as a whole word outside of every
\* comment is rejected by validate_query, wherever comment markers stand.
C3_KeywordOutsideCommentRejected ==
    (ValidatedQuery
        /\ \E o \in WholeWordOccurrences(vin.text) : OutsideComments(vin.text, o))
    => ~vout.ok

\* C4: a query that is not blank and whose denylisted keywords all lie
\* inside comments is accepted by validate_query.
C4_KeywordInCommentAccepted ==
    (ValidatedQuery
        /\ ~IsBlank(vin.text)
        /\ WholeWordOccurrences(vin.text) # {}
        /\ \A o \in WholeWordOccurrences(vin.text) : InsideComment(vin.text, o))
    => vout.ok

\* C5: a query in which denylisted keywords occur, but never as a whole
\* word (only as a strict substring of a longer identifier), is accepted by
\* validate_query.
C5_KeywordInIdentifierAccepted ==
    (ValidatedQuery
        /\ SubstringOccurrences(vin.text) # {}
        /\ WholeWordOccurrences(vin.text) = {})
    => vout.ok

\* C6: sanitize_identifier rejects the empty identifier and every identifier
\* with a character outside [A-Za-z0-9_.], and returns every other
\* identifier unchanged.
C6_SanitizeIdentifierCharset ==
    SanitizedIdentifier =>
        IF vin.text = <<>> \/ \E i \in DOMAIN vin.text : vin.text[i] \notin IdentChars
        THEN ~vout.ok
        ELSE vout.ok /\ vout.value = vin.text

(***************************************************************************)
(* Claims about the server.                                                *)
(***************************************************************************)
ExecuteMethods == {"execute_readonly_query", "execute_fetchval", "execute_fetchrow"}

ProbeMethods == {"health_check", "initialize"}

\* C1: every statement sent by execute_readonly_query (its SET LOCAL
\* included), execute_fetchval or execute_fetchrow is sent inside a
\* read-only transaction of the leased connection; the fixed probes of
\* health_check and initialize are sent outside of any transaction.
C1_ExecuteMethodsReadOnly ==
    \A s \in sent :
        /\ s.method \in ExecuteMethods => s.ro
        /\ s.method \in ProbeMethods => ~s.ro

\* get_database_stats has sent both of its statements, each in a read-only
\* transaction, and a health probe has sent its own
C1_Witness ==
    /\ \E s \in sent : s.method = "execute_fetchval" /\ s.ro
    /\ \E s \in sent : s.method = "execute_fetchrow" /\ s.ro
    /\ \E s \in sent : s.caller = 2 /\ s.method = "health_check"

\* C1 as stated: every statement any pool operation sends, the probes of
\* health_check and initialize included, is sent inside a read-only
\* transaction.
C1_AllStatementsReadOnly == \A s \in sent : s.ro

\* the messages of input validation: the pydantic request models,
\* validate_query and sanitize_identifier
InputValidationErrors ==
    {"ValidationError", "Query cannot be empty", "Query contains forbidden keyword",
     "Identifier cannot be empty", "Invalid identifier"}

RejectedByValidation(c) ==
    /\ calls[c].pc = "done"
    /\ calls[c].response.status = "error"
    /\ calls[c].response.error \in InputValidationErrors

\* C2: a tool call that ended with an input validation error (request
\* model, validate_query or sanitize_identifier) has leased no connection
\* and sent no statement.
C2_RejectedCallsTouchNoDatabase ==
    \A c \in Calls :
        RejectedByValidation(c) =>
            /\ leases[c] = 0
            /\ \A s \in sent : s.caller # c
            /\ \A k \in ConnIds : c \notin conns[k].holder

\* describe_table was refused a quoted table name while the pool was open
\* and serving another caller
C2_Witness ==
    /\ RejectedByValidation(1)
    /\ calls[1].tool = "describe_table"
    /\ calls[1].response.error = "Invalid identifier"
    /\ pool = "open"
    /\ leases[1] = 0
    /\ \E k \in ConnIds : conns[k].holder = {2}

\* C7: every name interpolated into a statement of list_tables,
\* describe_table or get_table_indexes was accepted by sanitize_identifier
\* in that call before, whether it came from the arguments or from rows.
C7_InterpolatedNamesSanitized ==
    \A s \in sent : s.interp \subseteq s.accepted

LexicallyRejected(c) ==
    /\ calls[c].pc = "done"
    /\ calls[c].tool = "query_database"
    /\ QueryDatabaseInput(calls[c].args)
    /\ validate_query(calls[c].args.query).keyword # <<>>

EntriesOf(c) == {i \in DOMAIN inserted : inserted[i].id = c}

NamesKeywordOf(c) ==
    /\ calls[c].response.status = "error"
    /\ calls[c].response.error = "Query contains forbidden keyword"
    /\ \E o \in WholeWordOccurrences(calls[c].args.query) :
          FORBIDDEN_KEYWORDS[o[1]] = calls[c].response.keyword

ReachedExecution(c) ==
    /\ calls[c].pc = "done"
    /\ calls[c].tool = "query_database"
    /\ calls[c].stage >= 1

\* C9: a query_database call that reached execution has added exactly one
\* history entry: a successful one with the number of rows returned if
\* execution and formatting succeeded, and otherwise a failed one with
\* row_count 0 and the message of the error the caller receives.
C9_ExecutedQueryRecordedOnce ==
    \A c \in Calls :
        ReachedExecution(c) =>
            /\ Cardinality(EntriesOf(c)) = 1
            /\ \A i \in EntriesOf(c) :
                  IF calls[c].result.ok
                     /\ ~format_rows_raises(calls[c].result.rows, calls[c].args.format)
                  THEN /\ calls[c].response.status = "ok"
                       /\ inserted[i].success
                       /\ inserted[i].row_count = Len(calls[c].result.rows)
                       /\ calls[c].response.row_count = Len(calls[c].result.rows)
                       /\ inserted[i].error = None
                  ELSE /\ calls[c].response.status = "error"
                       /\ ~inserted[i].success
                       /\ inserted[i].row_count = 0
                       /\ inserted[i].error = calls[c].response.error
                       /\ inserted[i].error # None
            /\ \E j \in DOMAIN history : history[j].id = c

\* a query with a timeout ran into the statement timeout, and the failure
\* is the one entry of the history
C9_Witness ==
    /\ ReachedExecution(1)
    /\ TimeoutGiven(calls[1].args.timeout)
    /\ calls[1].result.error = "QueryCanceledError"
    /\ calls[1].response.error = "Query execution timeout"
    /\ Len(history) = 1
    /\ ~history[1].success

(***************************************************************************)
(* Claims about the history's reads.                                       *)
(***************************************************************************)
AskedRecent == asked.op = "get_recent"

NewestFirst ==
    \A i \in DOMAIN recent : recent[i] = asked.before[Len(asked.before) + 1 - i]

\* C11: get_recent(limit) leaves the history unchanged and returns its
\* newest entries, newest first: min(limit, count) of them for a limit of
\* 0 or more, and for a negative limit all but the -limit oldest.
C11_GetRecentNewestFirst ==
    AskedRecent =>
        /\ history = asked.before
        /\ NewestFirst
        /\ Len(recent) <= HistoryCapacity
        /\ Len(recent) = IF asked.limit >= 0
                         THEN Min({asked.limit, Len(history)})
                         ELSE IF Len(history) + asked.limit > 0
                              THEN Len(history) + asked.limit ELSE 0

\* a full history was asked for one entry and gave its newest
C11_Witness ==
    /\ AskedRecent
    /\ asked.limit = 1
    /\ Len(history) = HistoryCapacity
    /\ recent = <<history[Len(history)]>>
    /\ recent # <<history[1]>>

\* C11 as stated: for every integer limit the result is newest first, its
\* length is at most min(limit, capacity), and the history is unchanged.
C11_GetRecentAtMostLimit ==
    AskedRecent =>
        /\ history = asked.before
        /\ NewestFirst
        /\ Len(recent) <= Min({asked.limit, HistoryCapacity})

(***************************************************************************)
(* Claims about get_query_history.                                         *)
(***************************************************************************)
HistoryCallDone(c) == calls[c].pc = "done" /\ calls[c].tool = "get_query_history"

LimitInRange(c) == calls[c].args.limit >= 1 /\ calls[c].args.limit <= 100

\* C12: a get_query_history call with a limit below 1 or above 100 ends
\* with a validation error and has not read the history; a call with a
\* limit in 1..100 (the default 20 is one) succeeds with at most limit
\* entries.  The history is only ever read with a limit in 1..100.
C12_HistoryLimitValidated ==
    /\ \A c \in Calls :
          HistoryCallDone(c) =>
              IF LimitInRange(c)
              THEN /\ calls[c].response.status = "ok"
                   /\ Len(calls[c].response.value) <= calls[c].args.limit
                   /\ calls[c].response.row_count = Len(calls[c].response.value)
              ELSE /\ calls[c].response.status = "error"
                   /\ calls[c].response.error = "ValidationError"
                   /\ calls[c].response.value = <<>>
    /\ asked.op = "get_recent" => asked.limit >= 1 /\ asked.limit <= 100
    /\ (\A c \in Calls : ~(HistoryCallDone(c) /\ LimitInRange(c))) => asked = NoAsk

\* limit 101 was refused while the history held an entry, which nobody
\* had read, and the other client's query had been recorded
C12_Witness ==
    /\ HistoryCallDone(2)
    /\ calls[2].args.limit = 101
    /\ calls[2].response.status = "error"
    /\ Len(history) = 1
    /\ asked = NoAsk

(***************************************************************************)
(* Claims about call_tool.                                                 *)
(***************************************************************************)
ToolCallDone(c) == calls[c].pc = "done" /\ calls[c].tool # "health_check"

HandlingFailed(c) == calls[c].response.status # "ok" \/ ~JsonEncodable(calls[c])

\* C13: for a call of a known tool, every failure (of the arguments, of
\* validation, of the database or the pool, of encoding the result) is
\* returned as an error object naming the error and the tool, and nothing
\* is raised; a call of an unknown tool raises out of call_tool.
C13_KnownToolFailuresStructured ==
    \A c \in Calls :
        ToolCallDone(c) =>
            IF calls[c].tool \in TOOLS
            THEN /\ calls[c].reply.kind \in {"payload", "error object"}
                 /\ HandlingFailed(c) <=> calls[c].reply.kind = "error object"
                 /\ calls[c].reply.kind = "error object" =>
                       /\ calls[c].reply.tool = calls[c].tool
                       /\ calls[c].reply.error # ""
                 /\ calls[c].response.status = "error" =>
                       calls[c].reply.error = calls[c].response.error
            ELSE calls[c].reply.kind = "raised"

\* a csv query succeeded in its handler with a row JSON cannot encode, and
\* call_tool answered with an error object
C13_Witness ==
    /\ ToolCallDone(1)
    /\ calls[1].tool = "query_database"
    /\ calls[1].response.status = "ok"
    /\ calls[1].reply = [kind |-> "error object", error |-> "TypeError",
                         tool |-> "query_database"]

\* C13 as stated: any failure while handling a call, an unknown tool name
\* included, is returned as an error object and never raised.
C13_AllFailuresStructured ==
    \A c \in Calls :
        ToolCallDone(c) =>
            /\ calls[c].reply.kind \in {"payload", "error object"}
            /\ (HandlingFailed(c) \/ calls[c].tool \notin TOOLS)
                  => calls[c].reply.kind = "error object"

PoolClosedError == "InterfaceError"

ExecutePending(c) == calls[c].pc = "acquire" /\ calls[c].op.method \in ExecuteMethods

\* C15: the pool is opened once, from there it can only close, and a closed
\* pool stays closed; once close has completed no connection is leased any
\* more, and every execute call still waiting for one fails with the
\* driver's pool-closed error.
C15_ClosedPoolStaysClosed ==
    /\ [][pool' # pool =>
             \/ pool = None /\ pool' = "open"
             \/ pool = "open" /\ pool' = "closing"
             \/ pool = "closing" /\ pool' = "closed"]_vars
    /\ [][pool = "closed" => (leases' = leases /\ conns' = conns /\ sent' = sent)]_vars
    /\ [][\A c \in Calls :
             (pool = "closed" /\ ExecutePending(c) /\ calls'[c] # calls[c]) =>
                 /\ calls'[c].pc = "done"
                 /\ calls'[c].response.status = "error"
                 /\ calls'[c].response.error = PoolClosedError
                 /\ calls'[c].conn = 0]_vars

\* list_tables sent its first statement, found the pool closed when it
\* went on to count the rows of a table, and failed
C15_Witness ==
    /\ pool = "closed"
    /\ server = "stopped"
    /\ calls[1].tool = "list_tables"
    /\ calls[1].pc = "done"
    /\ calls[1].stage = 2
    /\ leases[1] = 1
    /\ calls[1].response.error = PoolClosedError

(***************************************************************************)
(* Claims about the configuration.                                         *)
(***************************************************************************)
Configured == vin.kind = "config" /\ vout # NoResult

ConfigBoundsHold(cfg) ==
    /\ cfg.host # Missing /\ cfg.database # Missing
    /\ cfg.user # Missing /\ cfg.password # Missing
    /\ cfg.port \in 1..65535
    /\ cfg.pool_min_size >= 1
    /\ cfg.pool_max_size >= cfg.pool_min_size
    /\ cfg.command_timeout > 0
    /\ cfg.connection_timeout > 0

\* C16: the construction of a configuration succeeds if and only if host,
\* database, user and password are given, the port is in 1..65535,
\* pool_min_size is at least 1, pool_max_size is at least pool_min_size and
\* both timeouts are positive.
C16_ConfigConstructionChecked ==
    Configured => (vout.ok <=> ConfigBoundsHold(vin))

(***************************************************************************)
(* Claims about the errors of execute_readonly_query.                      *)
(***************************************************************************)
\* the tools all of whose statements go through execute_readonly_query
ReadonlyQueryTools ==
    {"query_database", "list_schemas", "get_table_indexes", "describe_table"}

DriverFailed(c) ==
    /\ calls[c].pc = "done"
    /\ calls[c].tool \in ReadonlyQueryTools
    /\ ~calls[c].result.ok
    /\ calls[c].result.error \in DriverErrors

TimeoutCategory == "Query execution timeout"

PermissionCategory == "Write operations are not allowed"

NotFoundCategory == "Table does not exist"

SyntaxCategory == "SQL error"

WaitsSaturated(c) == calls[c].pc = "acquire" /\ pool = "open" /\ FreeConns = {}

\* what the code does instead: a call that finds every connection leased
\* waits with no timeout of its own; while the pool is open and no connection
\* is free it can take no step, and it leaves the wait only with a connection
\* that was free or because the pool closes
WaiterWaitsForRelease ==
    /\ [](\A c \in Calls : WaitsSaturated(c) => ~ENABLED CallStep(c))
    /\ [][\A c \in Calls :
             (calls[c].pc = "acquire" /\ calls'[c] # calls[c]) =>
                 \/ /\ pool = "open"
                    /\ calls'[c].conn \in FreeConns
                    /\ calls'[c].pc \in {"begin", "fetch"}
                 \/ /\ pool \in {"closing", "closed"}
                    /\ calls'[c].pc = "done"
                    /\ calls'[c].conn = 0]_vars

\* C18: a call that waits for a connection while every connection of the
\* open pool is leased is bounded by the connection timeout: its wait can
\* end in a failure of its own, without any connection being released.
C18_SaturatedWaiterCanFail ==
    \A c \in Calls : WaitsSaturated(c) => ENABLED CallStep(c)

(***************************************************************************)
(* Claims about the statement timeout.                                     *)
(***************************************************************************)
SetLocal == "SET LOCAL statement_timeout"

\* the deadline a statement must run under: the one its own call supplied
DeadlineOf(s) ==
    IF TimeoutGiven(s.timeout) THEN <<TimeoutMillis(s.timeout)>> ELSE <<>>

\* C19: a timeout supplied to execute_readonly_query is set inside the
\* read-only transaction before the query is sent, so the query runs under
\* int(timeout * 1000) ms; the setting lives in that transaction only: a
\* connection outside a transaction carries no call's timeout, a free
\* connection is clean, and every statement of a call that supplied no
\* timeout, on whatever connection, runs under no earlier call's timeout.
C19_TimeoutScopedToTransaction ==
    /\ \A s \in sent :
          /\ s.stmt = SetLocal =>
                /\ s.ro
                /\ s.method = "execute_readonly_query"
                /\ TimeoutGiven(s.timeout)
          /\ s.stmt # SetLocal =>
                /\ s.deadline = DeadlineOf(s)
                /\ TimeoutGiven(s.timeout) => s.ro
    /\ \A k \in ConnIds :
          /\ conns[k].timeout # <<>> => conns[k].tx = "ro" /\ conns[k].holder # {}
          /\ k \in FreeConns => conns[k] = FreeConn

\* a query ran under its 1000 ms, ended in a timeout, and a later call's
\* statement ran on the same connection under no deadline
C19_Witness ==
    /\ \E s \in sent : s.caller = 1 /\ s.stmt = "user query" /\ s.deadline = <<1000>>
    /\ calls[1].pc = "done"
    /\ calls[1].result.error = "QueryCanceledError"
    /\ \E s \in sent : s.caller = 2 /\ s.deadline = <<>>
    /\ FreeConns = ConnIds

(***************************************************************************)
(* Claims about the leases of connections.                                 *)
(***************************************************************************)
Holding(c) == calls[c].conn # 0

Leased == {k \in ConnIds : conns[k].holder # {}}

InTransactionBlock(c) == calls[c].pc \in {"begin", "settimeout", "fetch", "release"}

\* C20: under every interleaving, the callers that hold a connection are at
\* most pool_max_size and hold distinct connections; a call holds a
\* connection exactly from its acquire to the end of the block around its one
\* statement, and none once it has ended, however it ended; after its
\* statement is sent a call can only give the connection back, and a handler
\* moves from one statement to the next holding none.
C20_LeasesBoundedAndReturned ==
    /\ [](/\ Cardinality({c \in Calls : Holding(c)})
              + (IF server \in {"probe fetch", "probe done", "probe failed"} THEN 1 ELSE 0)
             <= PoolMaxSize
          /\ Cardinality(Leased) <= PoolMaxSize
          /\ \A c \in Calls :
                /\ Holding(c) <=> InTransactionBlock(c)
                /\ Holding(c) => conns[calls[c].conn].holder = {c}
                /\ \A k \in ConnIds : c \in conns[k].holder => calls[c].conn = k)
    /\ [][\A c \in Calls :
             /\ calls[c].pc = "release" /\ calls'[c] # calls[c]
                   => /\ calls'[c].conn = 0
                      /\ conns'[calls[c].conn] = FreeConn
             /\ calls'[c].stage # calls[c].stage
                   => calls'[c].conn = 0 /\ \A k \in ConnIds : c \notin conns'[k].holder
             /\ Holding(c) /\ calls'[c].conn # 0 => calls'[c].conn = calls[c].conn]_vars

\* list_tables is between its two statements and holds nothing, while
\* another call has leased the connection it gave back
C20_Witness ==
    /\ calls[1].tool = "list_tables"
    /\ calls[1].stage = 2
    /\ calls[1].pc = "acquire"
    /\ leases[1] = 1
    /\ calls[2].conn # 0

(***************************************************************************)
(* Claims about the history under concurrent calls.                        *)
(***************************************************************************)
\* call c's execute_readonly_query returns or raises in this step, and the
\* handler runs to its end
ExecutionCompletes(c) ==
    /\ calls[c].pc # "done"
    /\ calls'[c].pc = "done"
    /\ calls'[c].tool = "query_database"
    /\ calls'[c].stage >= 1

\* the history after the first n appends
HistoryAfter(n) == AddAll(<<>>, SubSeq(inserted, 1, n))

ReadOnlyTools ==
    {"list_tables", "describe_table", "list_schemas", "get_table_indexes",
     "get_query_history", "get_database_stats"}

\* C22: no step of a list_tables, describe_table, list_schemas,
\* get_table_indexes, get_query_history or get_database_stats call changes
\* the history, whether the call goes on, succeeds or fails; every entry
\* ever added was added by a query_database call.
C22_OnlyQueryDatabaseWrites ==
    /\ [][\A c \in Calls :
             (calls'[c] # calls[c] /\ calls'[c].tool \in ReadOnlyTools) =>
                 history' = history /\ inserted' = inserted]_vars
    /\ [](\A i \in DOMAIN inserted : calls[inserted[i].id].tool = "query_database")

\* next to a recorded query, another tool has ended in an error after the
\* entry was written, and the history still holds that entry alone
C22_Witness ==
    /\ Len(history) = 1
    /\ history[1].id = 1
    /\ calls[2].tool \in ReadOnlyTools \ {"get_query_history"}
    /\ calls[2].pc = "done"
    /\ calls[2].stage >= 1
    /\ calls[2].response.status = "error"
    /\ inserted = history

(***************************************************************************)
(* Claims about the agreement of the response and the history.             *)
(***************************************************************************)
AnsweredQuery(c) ==
    /\ calls[c].pc = "done"
    /\ calls[c].tool = "query_database"
    /\ calls[c].reply.kind \in {"payload", "error object"}

\* C23: for every query_database call answered by call_tool, the caller
\* receives a success payload exactly if the entry recorded for the call has
\* success = true, and a structured error exactly if the entry has
\* success = false or no entry was recorded.
C23_ResponseAgreesWithHistory ==
    \A c \in Calls :
        AnsweredQuery(c) =>
            /\ calls[c].reply.kind = "payload"
                  <=> \E i \in EntriesOf(c) : inserted[i].success
            /\ calls[c].reply.kind = "error object"
                  <=> (EntriesOf(c) = {} \/ \E i \in EntriesOf(c) : ~inserted[i].success)

\* where they disagree: a query whose rows format_rows could write, recorded
\* as a success, is answered with the error of json.dumps(result)
RecordedSuccessAnsweredError ==
    \E c \in Calls :
        /\ AnsweredQuery(c)
        /\ calls[c].args.format = "json"
        /\ calls[c].result.rows = <<"converted">>
        /\ calls[c].reply.kind = "error object"
        /\ calls[c].reply.error = "TypeError"
        /\ \A i \in EntriesOf(c) : inserted[i].success
        /\ EntriesOf(c) # {}

(***************************************************************************)
(* Claims about the value of the statement timeout.                        *)
(***************************************************************************)
MaxDeadlineMillis == 300 * 1000

\* C24: every query that runs with a timeout accepted by validate_timeout
\* runs under a deadline of floor(timeout * 1000) milliseconds, which is at
\* least 1 and at most 300000.
C24_DeadlinePositiveMillis ==
    \A s \in sent :
        (s.stmt = "user query" /\ s.timeout # NoTimeout) =>
            /\ s.deadline = <<s.timeout[1] \div 1000>>
            /\ s.deadline[1] >= 1
            /\ s.deadline[1] <= MaxDeadlineMillis

\* where it fails: a query with an accepted timeout below one millisecond
\* runs with statement_timeout = 0, which disables the deadline
QueryRunsWithDeadlineDisabled ==
    \E s \in sent :
        /\ s.stmt = "user query"
        /\ QueryDatabaseInput([query |-> <<"x">>, format |-> "json", timeout |-> s.timeout])
        /\ TimeoutGiven(s.timeout)
        /\ s.deadline = <<0>>

====
